---- MODULE Spec2Model ----
(***************************************************************************)
(* GPU discovery through a dynamically loaded NVIDIA library               *)
(* (gpu/gpu_info_cuda.c): cuda_init binds the entry points and selects a   *)
(* backend, cuda_check_vram sums the memory of the visible devices and     *)
(* cuda_compute_capability reduces their compute capabilities.            *)
(*                                                                         *)
(* The dynamic loader and the two backends (libcudart, libnvidia-ml) are   *)
(* the environment: what they answer is drawn from small sets.  Each of    *)
(* the three functions is one action that runs the whole call.            *)
(***************************************************************************)
EXTENDS Integers, Sequences, FiniteSets, TLC

\* ------------------------------------------------------------ bounds
MaxDevices == 2     \* devices in a fleet
MaxMissing == 1     \* symbols the loader fails to resolve in the wide cuda_init runs

\* unsigned long long is 64 bits wide; the model keeps the wrap-around and
\* scales the width down to MemBits bits so that the wrap is within reach.
MemBits == 4
MemMod == 2 ^ MemBits

\* ------------------------------------------------------------ values
NULLPTR == "NULL"           \* a null void* / function pointer
LibRef == "lib"             \* the reference LOAD_LIBRARY returns
NoErr == << >>              \* err == NULL; an error text is a non-empty tuple

LIBUNKNOWN == "LIBUNKNOWN"
LIBCUDART == "LIBCUDART"
LIBNVIDIAML == "LIBNVIDIAML"
LibTypes == {LIBUNKNOWN, LIBCUDART, LIBNVIDIAML}

\* the lookup table l[] of cuda_init, in its order
Symbols ==
  << "nvmlInit_v2", "nvmlShutdown", "nvmlDeviceGetHandleByIndex",
     "nvmlDeviceGetMemoryInfo", "nvmlDeviceGetCount_v2",
     "nvmlDeviceGetCudaComputeCapability", "nvmlSystemGetDriverVersion",
     "nvmlDeviceGetName", "nvmlDeviceGetSerial", "nvmlDeviceGetVbiosVersion",
     "nvmlDeviceGetBoardPartNumber", "nvmlDeviceGetBrand",
     "cudaSetDevice", "cudaDeviceReset", "cudaMemGetInfo",
     "cudaGetDeviceCount", "cudaDeviceGetAttribute", "cudaDriverGetVersion" >>

SymbolSet == {Symbols[i] : i \in 1..Len(Symbols)}

\* cuda_handle_t: the library reference, the verbose flag, the backend tag
\* and the entry-point table (fns: the slots that hold a non-null address)
Handle(handle, verbose, lib_t, fns) ==
  [handle |-> handle, verbose |-> verbose, lib_t |-> lib_t, fns |-> fns]

\* the zeroed cuda_init_resp_t the caller passes in, with its verbose flag set
BlankHandle(verbose) == Handle(NULLPTR, verbose, LIBUNKNOWN, {})

\* "If err is non-null handle is invalid": a Handle is valid iff its library
\* reference is non-null and its backend tag is known
ValidHandle(ch) == ch.handle # NULLPTR /\ ch.lib_t # LIBUNKNOWN

VARIABLES
  pc,         \* "start", "ready" (a Handle is held), "crashed" (process killed)
  lastOp,     \* the operation that ran last: "none", "init", "adopt", "vram", "cc"
  env,        \* what the loader and the backend init calls answer to cuda_init
  libOpen,    \* the library image is open in the process
  closes,     \* the references passed to UNLOAD_LIBRARY, in order
  fleet,      \* the backend's devices: a sequence of readings
  failing,    \* the backend calls <<name, index>> that return non-success
  curDevice,  \* the runtime backend's global current device
  initResp,   \* cuda_init_resp_t: [err, ch]
  h,          \* the Handle the caller passes to the queries
  memPrior,   \* mem_info_t as the caller passed it to the last cuda_check_vram
  memResp,    \* mem_info_t after the last cuda_check_vram
  ccPrior,    \* cuda_compute_capability_t as passed to the last call
  ccResp,     \* cuda_compute_capability_t after the last call
  calls,      \* backend entry points invoked by the last operation: <<name, index>>
  firstMem,   \* result of the first cuda_check_vram on h (<< >> before it)
  firstCC,    \* result of the first cuda_compute_capability on h
  race        \* two concurrent cuda_check_vram calls on h, one per thread:
              \* where each is, its loop index, its mem_info_t

vars == << pc, lastOp, env, libOpen, closes, fleet, failing, curDevice, initResp,
           h, memPrior, memResp, ccPrior, ccResp, calls, firstMem, firstCC, race >>

\* ------------------------------------------------------------ cuda_init

\* What the environment answers during one cuda_init call.
\*   openOk    LOAD_LIBRARY returns a reference
\*   missing   the symbols LOAD_SYMBOL returns NULL for
\*   setDevOk  cudaSetDevice(0) returns CUDART_SUCCESS
\*   nvmlOk    nvmlInit_v2() returns NVML_SUCCESS
\*   drvOk     the driver-version call returns success
\*   closeNull UNLOAD_LIBRARY(NULL) is outside the loader's contract: on some
\*             loaders it fails quietly ("noop"), on others it faults ("crash")
InitEnv(openOk, missing, setDevOk, nvmlOk, drvOk, closeNull) ==
  [openOk |-> openOk, missing |-> missing, setDevOk |-> setDevOk,
   nvmlOk |-> nvmlOk, drvOk |-> drvOk, closeNull |-> closeNull]

\* the running state of one call: the response being built, the backend
\* calls made, the loader's state, the current device
InitState(resp, cs, open, cl, cur, crashed) ==
  [resp |-> resp, calls |-> cs, libOpen |-> open, closes |-> cl,
   cur |-> cur, crashed |-> crashed]

\* line 60: `if (!l[i].p)` tests the address of the slot, which is never
\* null, not the address LOAD_SYMBOL stored in it: the test never fires
LookupFailed(i, e) == FALSE

\* index of the first table entry whose lookup is seen to fail, 0 if none
FirstFailed(e) ==
  IF \E i \in 1..Len(Symbols) : LookupFailed(i, e)
  THEN CHOOSE i \in 1..Len(Symbols) :
         LookupFailed(i, e) /\ \A j \in 1..(i - 1) : ~LookupFailed(j, e)
  ELSE 0

\* UNLOAD_LIBRARY(ref): closing the open reference releases the library;
\* closing NULL releases nothing and may fault
Unload(s, ref, e) ==
  IF ref = NULLPTR
  THEN [s EXCEPT !.closes = Append(@, ref), !.crashed = (e.closeNull = "crash")]
  ELSE [s EXCEPT !.closes = Append(@, ref), !.libOpen = FALSE]

SetErr(s, msg) == [s EXCEPT !.resp.err = msg]
SetLib(s, ref) == [s EXCEPT !.resp.ch.handle = ref]
SetTag(s, t) == [s EXCEPT !.resp.ch.lib_t = t]
Invoke(s, name, idx) == [s EXCEPT !.calls = Append(@, << name, idx >>)]
\* a successful cudaSetDevice(i) makes i the runtime's current device
\* (variant: the current device is left as it was)
SelectDeviceNoEffect(s, i) == s

SelectDevice(s, i) == [s EXCEPT !.cur = i]

\* a call through a slot that holds NULL is an indirect call to address 0:
\* the process faults and nothing is returned
Crash(s) == [s EXCEPT !.crashed = TRUE]

\* lines 77, 88: which backend cuda_init tries, from the slots that resolved
\* (variant: the management backend tried first)
BackendNvmlFirst(fns) ==
  IF "nvmlInit_v2" \in fns THEN LIBNVIDIAML
  ELSE IF "cudaSetDevice" \in fns THEN LIBCUDART
  ELSE LIBUNKNOWN

BackendToTry(fns) ==
  IF "cudaSetDevice" \in fns THEN LIBCUDART
  ELSE IF "nvmlInit_v2" \in fns THEN LIBNVIDIAML
  ELSE LIBUNKNOWN

\* lines 123-129, the default case: the reference is dropped first, so
\* UNLOAD_LIBRARY is handed NULL
\* (variant: the reference is kept)
InitDefaultKeepsHandle(s, e) ==
  SetErr(s, << "unknown error: dlsym succeded but function pointers are unassigned" >>)

InitDefault(s, e) ==
  LET s1 == SetLib(s, NULLPTR)
      s2 == Unload(s1, s1.resp.ch.handle, e)
  IN  IF s2.crashed THEN s2
      ELSE SetErr(s2, << "unknown error: dlsym succeded but function pointers are unassigned" >>)

\* lines 101-130: the driver-version report of the selected backend
InitReport(s, e) ==
  IF s.resp.ch.lib_t = LIBCUDART THEN
    IF "cudaDriverGetVersion" \notin s.resp.ch.fns THEN Crash(s)
    ELSE Invoke(s, "cudaDriverGetVersion", -1)           \* errors ignored; break
  ELSE IF s.resp.ch.lib_t = LIBNVIDIAML THEN
    IF "nvmlSystemGetDriverVersion" \notin s.resp.ch.fns THEN Crash(s)
    ELSE InitDefault(Invoke(s, "nvmlSystemGetDriverVersion", -1), e)  \* no break
  ELSE InitDefault(s, e)

\* lines 76-99: backend activation
InitActivate(s, e) ==
  LET try == BackendToTry(s.resp.ch.fns) IN
  IF try = LIBCUDART THEN
    LET s1 == Invoke(s, "cudaSetDevice", 0) IN
    IF ~e.setDevOk
    THEN SetErr(SetLib(Unload(s1, s1.resp.ch.handle, e), NULLPTR),
                << "cudart vram init failure" >>)
    ELSE InitReport(SetTag(SelectDevice(s1, 0), LIBCUDART), e)
  ELSE IF try = LIBNVIDIAML THEN
    LET s1 == Invoke(s, "nvmlInit_v2", -1) IN
    IF ~e.nvmlOk
    THEN SetErr(SetLib(Unload(s1, s1.resp.ch.handle, e), NULLPTR),
                << "nvml vram init failure" >>)
    ELSE InitReport(SetTag(s1, LIBNVIDIAML), e)
  ELSE InitReport(s, e)

\* lines 55-71: the symbol loop.  Every slot is assigned what LOAD_SYMBOL
\* returned; were a failure seen at entry k, the slots after k would keep
\* what the caller passed in.
InitResolve(s, e) ==
  LET k == FirstFailed(e)
      upto == IF k = 0 THEN Len(Symbols) ELSE k
      assigned == {Symbols[i] : i \in 1..upto}
      fns == (s.resp.ch.fns \ assigned) \cup (assigned \ e.missing)
      s1 == [s EXCEPT !.resp.ch.fns = fns]
  IN  IF k # 0 THEN
        LET s2 == SetLib(s1, NULLPTR)
            s3 == Unload(s2, s2.resp.ch.handle, e)
        IN  IF s3.crashed THEN s3
            ELSE SetErr(s3, << "symbol lookup failed", Symbols[k] >>)
      ELSE InitActivate(s1, e)

\* (variant of the whole call: the result of LOAD_LIBRARY is not tested)
InitOpenUnchecked(verbose, e, open, cl, cur) ==
  LET s0 == InitState([err |-> NoErr, ch |-> BlankHandle(verbose)],
                      << >>, open, cl, cur, FALSE)
  IN  IF ~e.openOk
      THEN InitResolve(s0, e)
      ELSE InitResolve([SetLib(s0, LibRef) EXCEPT !.libOpen = TRUE], e)

\* lines 7-131: the whole call, on the caller's zeroed response
cuda_init_run(verbose, e, open, cl, cur) ==
  LET s0 == InitState([err |-> NoErr, ch |-> BlankHandle(verbose)],
                      << >>, open, cl, cur, FALSE)
  IN  IF ~e.openOk
      THEN SetErr(s0, << "Unable to load library" >>)
      ELSE InitResolve([SetLib(s0, LibRef) EXCEPT !.libOpen = TRUE], e)

\* ------------------------------------------------------------ the backends

\* one device of the fleet: its memory and its compute capability
Device(total, free, major, minor) ==
  [total |-> total, free |-> free, major |-> major, minor |-> minor]

\* a backend call <<name, index>> returns non-success
Fails(name, idx) == << name, idx >> \in failing

\* the running state of one query: the result being built, the backend
\* calls made, the runtime's current device
QState(resp, cs, cur) == [resp |-> resp, calls |-> cs, cur |-> cur, crashed |-> FALSE]

\* calling through a slot that holds NULL faults; otherwise the call is made
Through(hh, s, name, idx) ==
  IF name \in hh.fns THEN Invoke(s, name, idx) ELSE Crash(s)

\* unsigned 64-bit addition (resp->total += ...), at the model's width
AddWrap(a, b) == (a + b) % MemMod

\* ------------------------------------------------------------ cuda_check_vram

\* lines 176-177, 248-249: the device's reading is added to the totals
\* (variant: free and total exchanged)
AccumulateSwapped(resp, d) ==
  [resp EXCEPT !.total = AddWrap(@, d.free), !.free = AddWrap(@, d.total)]

Accumulate(resp, d) ==
  [resp EXCEPT !.total = AddWrap(@, d.total), !.free = AddWrap(@, d.free)]

\* lines 209-243: the metadata calls made in verbose mode, errors ignored
VerboseCalls ==
  << "nvmlDeviceGetName", "nvmlDeviceGetBoardPartNumber", "nvmlDeviceGetSerial",
     "nvmlDeviceGetVbiosVersion", "nvmlDeviceGetBrand" >>

\* (variant: a failed metadata call ends the call with an error)
RECURSIVE VramVerbosePropagates(_, _, _, _)
VramVerbosePropagates(hh, s, i, k) ==
  IF k > Len(VerboseCalls) THEN s
  ELSE LET s1 == Through(hh, s, VerboseCalls[k], i)
       IN  IF s1.crashed THEN s1
           ELSE IF Fails(VerboseCalls[k], i)
           THEN SetErr(s1, << "device metadata lookup failure", i >>)
           ELSE VramVerbosePropagates(hh, s1, i, k + 1)

RECURSIVE VramVerbose(_, _, _, _)
VramVerbose(hh, s, i, k) ==
  IF k > Len(VerboseCalls) THEN s
  ELSE LET s1 == Through(hh, s, VerboseCalls[k], i)
       IN  IF s1.crashed THEN s1 ELSE VramVerbose(hh, s1, i, k + 1)

\* line 168: cudaMemGetInfo takes no device: it reports the memory of the
\* runtime's current device
\* (variant: it reports the memory of device 0)
FirstReading(cur) == fleet[1]

CurrentReading(cur) == fleet[cur + 1]

\* lines 159-178: the runtime backend's loop, from index i.
RECURSIVE VramCudart(_, _, _)
VramCudart(hh, s, i) ==
  IF i >= s.resp.count THEN s
  ELSE
    LET s1 == Through(hh, s, "cudaSetDevice", i) IN
    IF s1.crashed THEN s1
    ELSE IF Fails("cudaSetDevice", i)
    THEN SetErr(s1, << "unable to get device handle", i >>)
    ELSE
      LET s2 == Through(hh, SelectDevice(s1, i), "cudaMemGetInfo", i) IN
      IF s2.crashed THEN s2
      ELSE IF Fails("cudaMemGetInfo", i)
      THEN SetErr(s2, << "device memory info lookup failure", i >>)
      ELSE VramCudart(hh, [s2 EXCEPT !.resp = Accumulate(@, CurrentReading(s2.cur))], i + 1)

\* lines 193-250: the management backend's loop, from index i
RECURSIVE VramNvml(_, _, _)
VramNvml(hh, s, i) ==
  IF i >= s.resp.count THEN s
  ELSE
    LET s1 == Through(hh, s, "nvmlDeviceGetHandleByIndex", i) IN
    IF s1.crashed THEN s1
    ELSE IF Fails("nvmlDeviceGetHandleByIndex", i)
    THEN SetErr(s1, << "unable to get device handle", i >>)
    ELSE
      LET s2 == Through(hh, s1, "nvmlDeviceGetMemoryInfo", i) IN
      IF s2.crashed THEN s2
      ELSE IF Fails("nvmlDeviceGetMemoryInfo", i)
      THEN SetErr(s2, << "device memory info lookup failure", i >>)
      ELSE
        LET s3 == IF hh.verbose # 0 THEN VramVerbose(hh, s2, i, 1) ELSE s2 IN
        IF s3.crashed THEN s3
        ELSE VramNvml(hh, [s3 EXCEPT !.resp = Accumulate(@, fleet[i + 1])], i + 1)

\* lines 150, 157-158 and 183, 190-191: the count call stores the number of
\* devices and the totals are reset before the loop
\* (variant: the totals are not reset)
VramResetKeepsTotals(resp, n) == [resp EXCEPT !.count = n]

VramReset(resp, n) == [resp EXCEPT !.count = n, !.total = 0, !.free = 0]

\* lines 150-155, 183-188: after the count call.  A failed count call leaves
\* resp->count as it was and ends the call; otherwise the loop runs.
\* (variant: the loop runs whatever the count call returned)
VramCountIgnoresFailure(hh, s, countFn) ==
  LET s1 == [s EXCEPT !.resp = VramReset(@, Len(fleet))]
  IN  IF countFn = "cudaGetDeviceCount" THEN VramCudart(hh, s1, 0)
      ELSE VramNvml(hh, s1, 0)

\* (variant: the loop starts at index 1)
VramCountSkipsFirst(hh, s, countFn) ==
  IF Fails(countFn, -1) THEN SetErr(s, << "unable to get device count" >>)
  ELSE
    LET s1 == [s EXCEPT !.resp = VramReset(@, Len(fleet))]
    IN  IF countFn = "cudaGetDeviceCount" THEN VramCudart(hh, s1, 1)
        ELSE VramNvml(hh, s1, 1)

VramCount(hh, s, countFn) ==
  IF Fails(countFn, -1) THEN SetErr(s, << "unable to get device count" >>)
  ELSE
    LET s1 == [s EXCEPT !.resp = VramReset(@, Len(fleet))]
    IN  IF countFn = "cudaGetDeviceCount" THEN VramCudart(hh, s1, 0)
        ELSE VramNvml(hh, s1, 0)

\* lines 147-258: the switch on the backend tag
VramSwitch(hh, s) ==
  IF hh.lib_t = LIBCUDART THEN
    LET s1 == Through(hh, s, "cudaGetDeviceCount", -1)
    IN  IF s1.crashed THEN s1 ELSE VramCount(hh, s1, "cudaGetDeviceCount")
  ELSE IF hh.lib_t = LIBNVIDIAML THEN
    LET s1 == Through(hh, s, "nvmlDeviceGetCount_v2", -1)
    IN  IF s1.crashed THEN s1 ELSE VramCount(hh, s1, "nvmlDeviceGetCount_v2")
  ELSE SetErr(s, << "error detecting loaded library" >>)

\* line 134: only the error of the caller's mem_info_t is cleared on entry
\* (variant: a stale error is left in place)
VramEntryKeepsErr(prior) == prior

\* (variant: the whole struct is cleared)
VramEntryClears(prior) == [err |-> NoErr, count |-> 0, total |-> 0, free |-> 0]

VramEntry(prior) == [prior EXCEPT !.err = NoErr]

\* lines 133-259: the whole call on the caller's mem_info_t
\* (variant: the reference is not tested)
VramNoHandleCheck(hh, prior, cur) ==
  VramSwitch(hh, QState(VramEntry(prior), << >>, cur))

cuda_check_vram_run(hh, prior, cur) ==
  LET s0 == QState(VramEntry(prior), << >>, cur) IN
  IF hh.handle = NULLPTR
  THEN SetErr(s0, << "cuda and nvml handle isn't initialized" >>)
  ELSE VramSwitch(hh, s0)

\* ------------------------------------------------------------ cuda_compute_capability

\* lines 303-309, 342-348: "Report the lowest major.minor we detect"
\* (variant: a running major of 0 is not taken as "no reading yet")
CapReduceNoSentinel(resp, major, minor) ==
  IF resp.major > major
  THEN [resp EXCEPT !.major = major, !.minor = minor]
  ELSE IF resp.major = major /\ resp.minor > minor
  THEN [resp EXCEPT !.minor = minor]
  ELSE resp

\* (variant: a lower major replaces the major only)
CapReduceKeepsMinor(resp, major, minor) ==
  IF resp.major = 0 \/ resp.major > major
  THEN [resp EXCEPT !.major = major]
  ELSE IF resp.major = major /\ resp.minor > minor
  THEN [resp EXCEPT !.minor = minor]
  ELSE resp

CapReduce(resp, major, minor) ==
  IF resp.major = 0 \/ resp.major > major
  THEN [resp EXCEPT !.major = major, !.minor = minor]
  ELSE IF resp.major = major /\ resp.minor > minor
  THEN [resp EXCEPT !.minor = minor]
  ELSE resp

\* lines 289-310: the management backend's loop, from index i of n
RECURSIVE CapNvml(_, _, _, _)
CapNvml(hh, s, i, n) ==
  IF i >= n THEN s
  ELSE
    LET s1 == Through(hh, s, "nvmlDeviceGetHandleByIndex", i) IN
    IF s1.crashed THEN s1
    ELSE IF Fails("nvmlDeviceGetHandleByIndex", i)
    THEN SetErr(s1, << "unable to get device handle", i >>)
    ELSE
      LET s2 == Through(hh, s1, "nvmlDeviceGetCudaComputeCapability", i) IN
      IF s2.crashed THEN s2
      ELSE IF Fails("nvmlDeviceGetCudaComputeCapability", i)
      THEN SetErr(s2, << "device compute capability lookup failure", i >>)
      ELSE CapNvml(hh, [s2 EXCEPT !.resp =
                          CapReduce(@, fleet[i + 1].major, fleet[i + 1].minor)],
                   i + 1, n)

\* lines 321-349: the runtime backend's loop; cudaDeviceGetAttribute names
\* the device it reads.  The two attribute calls are logged as Major, Minor.
RECURSIVE CapCudart(_, _, _, _)
CapCudart(hh, s, i, n) ==
  IF i >= n THEN s
  ELSE
    LET s1 == Through(hh, s, "cudaSetDevice", i) IN
    IF s1.crashed THEN s1
    ELSE IF Fails("cudaSetDevice", i)
    THEN SetErr(s1, << "unable to get device handle", i >>)
    ELSE
      LET s2 == Through(hh, SelectDevice(s1, i), "cudaDeviceGetAttribute", i) IN
      IF s2.crashed THEN s2
      ELSE IF Fails("cudaDeviceGetAttribute:Major", i)
      THEN SetErr(s2, << "device compute capability lookup failure", i >>)
      ELSE
        LET s3 == Invoke(s2, "cudaDeviceGetAttribute", i) IN
        IF Fails("cudaDeviceGetAttribute:Minor", i)
        THEN SetErr(s3, << "device compute capability lookup failure", i >>)
        ELSE CapCudart(hh, [s3 EXCEPT !.resp =
                              CapReduce(@, fleet[i + 1].major, fleet[i + 1].minor)],
                       i + 1, n)

\* lines 282-287, 314-319: after the count call
CapCount(hh, s, countFn) ==
  IF Fails(countFn, -1) THEN SetErr(s, << "unable to get device count" >>)
  ELSE IF countFn = "cudaGetDeviceCount" THEN CapCudart(hh, s, 0, Len(fleet))
  ELSE CapNvml(hh, s, 0, Len(fleet))

\* lines 279-357: the switch on the backend tag
CapSwitch(hh, s) ==
  IF hh.lib_t = LIBNVIDIAML THEN
    LET s1 == Through(hh, s, "nvmlDeviceGetCount_v2", -1)
    IN  IF s1.crashed THEN s1 ELSE CapCount(hh, s1, "nvmlDeviceGetCount_v2")
  ELSE IF hh.lib_t = LIBCUDART THEN
    LET s1 == Through(hh, s, "cudaGetDeviceCount", -1)
    IN  IF s1.crashed THEN s1 ELSE CapCount(hh, s1, "cudaGetDeviceCount")
  ELSE SetErr(s, << "error detecting loaded library" >>)

\* lines 262-264: the result is cleared before anything else
\* (variant: major and minor are not cleared)
CapEntryKeepsPrior(prior) == [prior EXCEPT !.err = NoErr]

CapEntry(prior) == [err |-> NoErr, major |-> 0, minor |-> 0]

\* lines 261-358: the whole call on the caller's cuda_compute_capability_t
cuda_compute_capability_run(hh, prior, cur) ==
  LET s0 == QState(CapEntry(prior), << >>, cur) IN
  IF hh.handle = NULLPTR
  THEN SetErr(s0, << "cuda handle not initialized" >>)
  ELSE CapSwitch(hh, s0)

\* ------------------------------------------------------------ the environment's choices

\* {total, free} readings: sums of two wrap at the model's width
MemKinds == { << 1, 0 >>, << 9, 1 >>, << 9, 9 >> }
\* {major, minor} readings
CapKinds == { << 0, 1 >>, << 1, 0 >>, << 1, 1 >>, << 2, 0 >> }

RECURSIVE SeqsUpTo(_, _)
SeqsUpTo(S, n) ==
  IF n = 0 THEN { << >> }
  ELSE LET shorter == SeqsUpTo(S, n - 1)
       IN  shorter \cup { Append(q, x) : q \in { r \in shorter : Len(r) = n - 1 }, x \in S }

\* fleets whose memory readings vary, and fleets whose capabilities vary
MemFleets == SeqsUpTo({ Device(m[1], m[2], 1, 0) : m \in MemKinds }, MaxDevices)
CapFleets == SeqsUpTo({ Device(9, 1, c[1], c[2]) : c \in CapKinds }, MaxDevices)
\* the fleets of up to MaxDevices devices of one machine with mixed devices
MixedDevice(i) == IF i % 2 = 1 THEN Device(9, 1, 2, 1) ELSE Device(9, 9, 1, 0)
FewFleets == { [i \in 1..n |-> MixedDevice(i)] : n \in 0..MaxDevices }

CountCalls == { "cudaGetDeviceCount", "nvmlDeviceGetCount_v2" }
DeviceCalls ==
  { "cudaSetDevice", "cudaMemGetInfo", "cudaDeviceGetAttribute:Major",
    "cudaDeviceGetAttribute:Minor", "nvmlDeviceGetHandleByIndex",
    "nvmlDeviceGetMemoryInfo", "nvmlDeviceGetCudaComputeCapability" }

VramCalls ==
  { "cudaSetDevice", "cudaMemGetInfo", "nvmlDeviceGetHandleByIndex",
    "nvmlDeviceGetMemoryInfo" }
CapCalls == DeviceCalls \ { "cudaMemGetInfo", "nvmlDeviceGetMemoryInfo" }

\* the backend is healthy, or one call fails: a count call, or one of the
\* per-device calls `among` at one index
FailChoices(among) ==
  { {} } \cup { { << c, -1 >> } : c \in CountCalls }
         \cup { { << c, i >> } : c \in among, i \in 0..(MaxDevices - 1) }

\* Handles a caller can hold without cuda_init: cuda_handle_t is a plain
\* struct passed by value, filled here with every slot resolved
GivenHandles ==
  { Handle(ref, v, t, SymbolSet) : ref \in {NULLPTR, LibRef}, v \in {0, 1}, t \in LibTypes }

\* what the loader and the init calls answer: every combination, with up
\* to MaxMissing unresolved symbols and the two pairs that reach the
\* management backend and the unknown tag
MissingSets ==
  { S \in SUBSET SymbolSet : Cardinality(S) <= MaxMissing }
    \cup { { "cudaSetDevice", "nvmlInit_v2" },
           { "cudaSetDevice", "nvmlSystemGetDriverVersion" } }

WideEnvs ==
  { InitEnv(o, m, sd, nv, dv, cn) :
      o \in BOOLEAN, m \in MissingSets, sd \in BOOLEAN, nv \in BOOLEAN,
      dv \in BOOLEAN, cn \in {"noop", "crash"} }

\* the answers that reach each return of cuda_init once
NarrowEnvs ==
  { InitEnv(o, m, sd, nv, TRUE, "noop") :
      o \in BOOLEAN,
      m \in { {}, { "cudaSetDevice" }, { "cudaSetDevice", "nvmlInit_v2" },
              { "cudaMemGetInfo" } },
      sd \in BOOLEAN, nv \in BOOLEAN }

\* result structs as the caller may pass them in: zeroed, or stale
ZeroMem == [err |-> NoErr, count |-> 0, total |-> 0, free |-> 0]
StaleMem == [err |-> << "stale" >>, count |-> 1, total |-> 5, free |-> 3]
ZeroCap == [err |-> NoErr, major |-> 0, minor |-> 0]
StaleCap == [err |-> << "stale" >>, major |-> 3, minor |-> 1]

\* the execution contexts that may call cuda_check_vram at the same time
Threads == { "a", "b" }

\* a thread that has not called yet
NoCall == [at |-> "idle", i |-> 0, prior |-> ZeroMem, resp |-> ZeroMem,
           misread |-> FALSE, overlapped |-> FALSE]

\* ------------------------------------------------------------ the state machine

InitWith(fleets, fails) ==
  /\ pc = "start"
  /\ lastOp = "none"
  /\ env = InitEnv(TRUE, {}, TRUE, TRUE, TRUE, "noop")
  /\ libOpen = FALSE
  /\ closes = << >>
  /\ fleet \in fleets
  /\ failing \in fails
  /\ curDevice = 0
  /\ initResp = [err |-> NoErr, ch |-> BlankHandle(0)]
  /\ h = BlankHandle(0)
  /\ memPrior = ZeroMem
  /\ memResp = ZeroMem
  /\ ccPrior = ZeroCap
  /\ ccResp = ZeroCap
  /\ calls = << >>
  /\ firstMem = << >>
  /\ firstCC = << >>
  /\ race = [t \in Threads |-> NoCall]

\* cuda_init(path, &resp) on a zeroed response whose verbose flag is set
cuda_init(envs) ==
  \E verbose \in {0, 1}, e \in envs :
    LET r == cuda_init_run(verbose, e, libOpen, closes, curDevice) IN
    /\ pc = "start"
    /\ pc' = IF r.crashed THEN "crashed" ELSE "ready"
    /\ lastOp' = "init"
    /\ env' = e
    /\ libOpen' = r.libOpen
    /\ closes' = r.closes
    /\ curDevice' = r.cur
    /\ calls' = r.calls
    /\ initResp' = IF r.crashed THEN initResp ELSE r.resp
    /\ h' = IF r.crashed THEN h ELSE r.resp.ch
    /\ UNCHANGED << fleet, failing, memPrior, memResp, ccPrior, ccResp, firstMem, firstCC,
                    race >>

\* the caller holds a Handle it was given
AdoptHandle ==
  \E hh \in GivenHandles :
    /\ pc = "start"
    /\ pc' = "ready"
    /\ lastOp' = "adopt"
    /\ h' = hh
    /\ libOpen' = (hh.handle # NULLPTR)
    /\ UNCHANGED << env, closes, fleet, failing, curDevice, initResp, memPrior,
                    memResp, ccPrior, ccResp, calls, firstMem, firstCC, race >>

\* cuda_check_vram(h, &resp) on a struct that is zeroed, stale, or reused
cuda_check_vram ==
  \E prior \in {ZeroMem, StaleMem, memResp} :
    LET r == cuda_check_vram_run(h, prior, curDevice) IN
    /\ pc = "ready"
    /\ pc' = IF r.crashed THEN "crashed" ELSE "ready"
    /\ lastOp' = "vram"
    /\ curDevice' = r.cur
    /\ calls' = r.calls
    /\ memPrior' = prior
    /\ memResp' = IF r.crashed THEN memResp ELSE r.resp
    /\ firstMem' = IF r.crashed \/ firstMem # << >> THEN firstMem ELSE << r.resp >>
    /\ UNCHANGED << env, libOpen, closes, fleet, failing, initResp, h, ccPrior,
                    ccResp, firstCC, race >>

\* cuda_compute_capability(h, &resp) on a struct that is zeroed, stale, or reused
cuda_compute_capability ==
  \E prior \in {ZeroCap, StaleCap, ccResp} :
    LET r == cuda_compute_capability_run(h, prior, curDevice) IN
    /\ pc = "ready"
    /\ pc' = IF r.crashed THEN "crashed" ELSE "ready"
    /\ lastOp' = "cc"
    /\ curDevice' = r.cur
    /\ calls' = r.calls
    /\ ccPrior' = prior
    /\ ccResp' = IF r.crashed THEN ccResp ELSE r.resp
    /\ firstCC' = IF r.crashed \/ firstCC # << >> THEN firstCC ELSE << r.resp >>
    /\ UNCHANGED << env, libOpen, closes, fleet, failing, initResp, h, memPrior,
                    memResp, firstMem, race >>

\* ---- two cuda_check_vram calls on the runtime backend, one backend call
\* ---- per step.  Each thread has its own mem_info_t and loop index; the
\* ---- Handle, the fleet and the runtime's current device are shared.

\* a thread's call ends with an error
RaceFail(r, msg) == [r EXCEPT !.at = "done", !.resp.err = msg]

\* lines 134-158: entry, the handle test, the count call and the reset of
\* the totals.  The call overlaps the other thread's if that one is under way.
check_vram_count(t) ==
  \E prior \in {ZeroMem, StaleMem} :
    LET busy(o) == race[o].at \notin {"idle", "done"}
        r0 == [race[t] EXCEPT !.prior = prior, !.resp = VramEntry(prior), !.i = 0,
                              !.overlapped = \E o \in Threads \ {t} : busy(o)]
        mine == IF Fails("cudaGetDeviceCount", -1)
                THEN RaceFail(r0, << "unable to get device count" >>)
                ELSE LET r1 == [r0 EXCEPT !.resp = VramReset(@, Len(fleet))]
                     IN  [r1 EXCEPT !.at = IF 0 >= r1.resp.count THEN "done" ELSE "select"]
    IN  /\ pc = "ready"
        /\ race[t].at = "idle"
        /\ h.handle # NULLPTR /\ h.lib_t = LIBCUDART
        /\ { "cudaGetDeviceCount", "cudaSetDevice", "cudaMemGetInfo" } \subseteq h.fns
        /\ race' = [o \in Threads |->
                      IF o = t THEN mine
                      ELSE [race[o] EXCEPT !.overlapped = @ \/ busy(o)]]
        /\ UNCHANGED << pc, lastOp, env, libOpen, closes, fleet, failing, curDevice,
                        initResp, h, memPrior, memResp, ccPrior, ccResp, calls,
                        firstMem, firstCC >>

\* lines 161-166: cudaSetDevice(i)
check_vram_select(t) ==
  LET i == race[t].i IN
  /\ pc = "ready"
  /\ race[t].at = "select"
  /\ IF Fails("cudaSetDevice", i)
     THEN /\ race' = [race EXCEPT ![t] = RaceFail(@, << "unable to get device handle", i >>)]
          /\ curDevice' = curDevice
     ELSE /\ race' = [race EXCEPT ![t].at = "meminfo"]
          /\ curDevice' = SelectDevice([cur |-> curDevice], i).cur
  /\ UNCHANGED << pc, lastOp, env, libOpen, closes, fleet, failing, initResp, h,
                  memPrior, memResp, ccPrior, ccResp, calls, firstMem, firstCC >>

\* lines 168-178: cudaMemGetInfo, the two additions and the loop's i++.
\* The reading is a misread when the current device is not the thread's i.
check_vram_meminfo(t) ==
  LET i == race[t].i IN
  /\ pc = "ready"
  /\ race[t].at = "meminfo"
  /\ race' = [race EXCEPT ![t] =
                IF Fails("cudaMemGetInfo", i)
                THEN RaceFail(@, << "device memory info lookup failure", i >>)
                ELSE [@ EXCEPT !.resp = Accumulate(@, CurrentReading(curDevice)),
                               !.misread = @ \/ curDevice # i,
                               !.i = i + 1,
                               !.at = IF i + 1 >= race[t].resp.count THEN "done" ELSE "select"]]
  /\ UNCHANGED << pc, lastOp, env, libOpen, closes, fleet, failing, curDevice, initResp,
                  h, memPrior, memResp, ccPrior, ccResp, calls, firstMem, firstCC >>

\* two threads calling cuda_check_vram on a Handle they share
InitRace == InitWith(MemFleets, FailChoices({ "cudaSetDevice", "cudaMemGetInfo" }))
NextRace ==
  \/ AdoptHandle
  \/ \E t \in Threads : check_vram_count(t)
  \/ \E t \in Threads : check_vram_select(t)
  \/ \E t \in Threads : check_vram_meminfo(t)
SpecRace == InitRace /\ [][NextRace]_vars

\* the backend's failing call stops failing; the results of earlier calls
\* are no longer those of an unchanged backend
BackendRecovers ==
  /\ pc = "ready"
  /\ failing # {}
  /\ failing' = {}
  /\ lastOp' = "recover"
  /\ firstMem' = << >>
  /\ firstCC' = << >>
  /\ UNCHANGED << pc, env, libOpen, closes, fleet, curDevice, initResp, h, memPrior,
                  memResp, ccPrior, ccResp, calls, race >>

\* the whole interface: a Handle from cuda_init or given, then the queries
Init == InitWith(FewFleets, FailChoices(DeviceCalls))
Next == cuda_init(NarrowEnvs) \/ AdoptHandle \/ cuda_check_vram \/ cuda_compute_capability
Spec == Init /\ [][Next]_vars

\* cuda_init alone, over every answer of the loader and the init calls
InitOnly == InitWith({ [i \in 1..MaxDevices |-> MixedDevice(i)] }, { {} })
NextInit == cuda_init(WideEnvs)
SpecInit == InitOnly /\ [][NextInit]_vars

\* other code of the process has selected a device before the Handle is
\* obtained: the runtime's current device is global to the process
OtherSelectsDevice ==
  \E d \in 0..(MaxDevices - 1) :
    /\ pc = "start"
    /\ lastOp = "none"
    /\ d # curDevice
    /\ curDevice' = d
    /\ lastOp' = "select"
    /\ UNCHANGED << pc, env, libOpen, closes, fleet, failing, initResp, h, memPrior,
                    memResp, ccPrior, ccResp, calls, firstMem, firstCC, race >>

\* the whole interface in a process whose current device may already be set
NextDevice == Next \/ OtherSelectsDevice
SpecDevice == Init /\ [][NextDevice]_vars

\* the whole interface with a backend that recovers from its failure
NextRecover == Next \/ BackendRecovers
SpecRecover == Init /\ [][NextRecover]_vars

\* the whole interface where the diagnostic-only calls (driver version,
\* verbose device metadata) may fail
MetadataCalls == { VerboseCalls[k] : k \in 1..Len(VerboseCalls) }
DiagEnvs == { [e EXCEPT !.drvOk = dv] : e \in NarrowEnvs, dv \in BOOLEAN }
InitDiag == InitWith(FewFleets, FailChoices(MetadataCalls))
NextDiag == cuda_init(DiagEnvs) \/ AdoptHandle \/ cuda_check_vram \/ cuda_compute_capability
SpecDiag == InitDiag /\ [][NextDiag]_vars

\* cuda_check_vram on a given Handle, over memory readings and failures
InitVram == InitWith(MemFleets, FailChoices(VramCalls))
NextVram == AdoptHandle \/ cuda_check_vram
SpecVram == InitVram /\ [][NextVram]_vars

\* cuda_compute_capability on a given Handle, over capability readings
InitCap == InitWith(CapFleets, FailChoices(CapCalls))
NextCap == AdoptHandle \/ cuda_compute_capability
SpecCap == InitCap /\ [][NextCap]_vars

\* ------------------------------------------------------------ properties of cuda_init

\* a cuda_init call has run to its return
InitReturned == lastOp = "init" /\ pc = "ready"

\* the loader opened the library and resolved every entry point
AllResolved == env.openOk /\ env.missing = {}

\* C1: whenever the library opens, every entry point resolves and
\* cudaSetDevice(0) succeeds, cuda_init returns error = NULL, a non-null
\* library reference and the tag LIBCUDART, and never invokes nvmlInit_v2,
\* whether or not nvmlInit_v2 would have succeeded.
C1_RuntimePriority ==
  (lastOp = "init" /\ AllResolved /\ env.setDevOk) =>
    /\ pc = "ready"
    /\ initResp.err = NoErr
    /\ initResp.ch.handle # NULLPTR
    /\ initResp.ch.lib_t = LIBCUDART
    /\ \A i \in 1..Len(calls) : calls[i][1] # "nvmlInit_v2"

C1_Witness ==
  /\ InitReturned /\ AllResolved /\ env.setDevOk /\ env.nvmlOk
  /\ initResp.ch.lib_t = LIBCUDART
  /\ calls = << << "cudaSetDevice", 0 >>, << "cudaDriverGetVersion", -1 >> >>

\* C2: when the library opens, every entry point resolves, cudaSetDevice(0)
\* does not succeed and nvmlInit_v2 would succeed, cuda_init invokes
\* nvmlInit_v2 and returns a valid Handle tagged LIBNVIDIAML with
\* error = NULL.  (The code returns the runtime failure instead.)
C2_Fallback ==
  (lastOp = "init" /\ AllResolved /\ ~env.setDevOk /\ env.nvmlOk) =>
    /\ pc = "ready"
    /\ \E i \in 1..Len(calls) : calls[i][1] = "nvmlInit_v2"
    /\ initResp.err = NoErr
    /\ initResp.ch.handle # NULLPTR
    /\ initResp.ch.lib_t = LIBNVIDIAML

\* C3: for every cuda_init call that returns, error is NULL if and only if
\* the Handle is valid (library reference non-null and tag not LIBUNKNOWN).
C3_ErrIffInvalid ==
  InitReturned => (initResp.err = NoErr <=> ValidHandle(initResp.ch))

\* the management backend was activated and the call still ends in the
\* default case: the tag is known, the reference is null, the error is set
C3_Witness ==
  /\ InitReturned
  /\ initResp.ch.lib_t = LIBNVIDIAML
  /\ initResp.ch.handle = NULLPTR
  /\ initResp.err # NoErr

\* the first table entry the loader does not resolve
FirstMissing ==
  Symbols[CHOOSE i \in 1..Len(Symbols) :
            Symbols[i] \in env.missing /\ \A j \in 1..(i - 1) : Symbols[j] \notin env.missing]

\* C4: if the library opens but the loader returns NULL for a required
\* entry point, cuda_init stops at that symbol, invokes no backend entry
\* point, releases the library and returns an error naming the symbol with
\* an invalid Handle.  (The code tests the slot's address and goes on.)
C4_SymbolFailureFatal ==
  (lastOp = "init" /\ env.openOk /\ env.missing # {}) =>
    /\ pc = "ready"
    /\ calls = << >>
    /\ ~libOpen
    /\ initResp.err = << "symbol lookup failed", FirstMissing >>
    /\ ~ValidHandle(initResp.ch)

\* ------------------------------------------------------------ properties of cuda_check_vram

\* the exact sums of the first n readings of the fleet
RECURSIVE SumTotal(_)
SumTotal(n) == IF n = 0 THEN 0 ELSE SumTotal(n - 1) + fleet[n].total
RECURSIVE SumFree(_)
SumFree(n) == IF n = 0 THEN 0 ELSE SumFree(n - 1) + fleet[n].free

\* the per-device calls cuda_check_vram makes on each backend
VramCallsOf(t) ==
  IF t = LIBCUDART THEN { "cudaSetDevice", "cudaMemGetInfo" }
  ELSE IF t = LIBNVIDIAML THEN { "nvmlDeviceGetHandleByIndex", "nvmlDeviceGetMemoryInfo" }
  ELSE {}

\* the per-device calls cuda_compute_capability makes on each backend
CapCallsOf(t) ==
  IF t = LIBCUDART
  THEN { "cudaSetDevice", "cudaDeviceGetAttribute:Major", "cudaDeviceGetAttribute:Minor" }
  ELSE IF t = LIBNVIDIAML
  THEN { "nvmlDeviceGetHandleByIndex", "nvmlDeviceGetCudaComputeCapability" }
  ELSE {}

CountCallOf(t) ==
  IF t = LIBCUDART THEN "cudaGetDeviceCount" ELSE "nvmlDeviceGetCount_v2"

\* the count call of h's backend fails
CountFails == << CountCallOf(h.lib_t), -1 >> \in failing

\* a cuda_check_vram call on a valid Handle has returned, and the count
\* call and every per-device call it made succeeded
VramAllSucceeded ==
  /\ lastOp = "vram" /\ pc = "ready" /\ ValidHandle(h)
  /\ ~CountFails
  /\ \A f \in failing : f[1] \notin VramCallsOf(h.lib_t) \/ f[2] >= Len(fleet)

\* C5 as stated: on a valid Handle of either backend, when the count call
\* and every per-device call succeed, error = NULL, count is the number of
\* devices, and total and free are the sums of the per-device values.
C5_ExactSum ==
  VramAllSucceeded =>
    /\ memResp.err = NoErr
    /\ memResp.count = Len(fleet)
    /\ memResp.total = SumTotal(Len(fleet))
    /\ memResp.free = SumFree(Len(fleet))

\* C5 as amended: total and free are the sums of the per-device values
\* reduced modulo 2^64, the width of the accumulators (the exact sums
\* whenever these fit in 64 bits).
C5_SumModWidth ==
  VramAllSucceeded =>
    /\ memResp.err = NoErr
    /\ memResp.count = Len(fleet)
    /\ memResp.total = SumTotal(Len(fleet)) % MemMod
    /\ memResp.free = SumFree(Len(fleet)) % MemMod

C5_Witness ==
  /\ VramAllSucceeded
  /\ h.lib_t = LIBCUDART
  /\ Len(fleet) = 2
  /\ fleet[1] # fleet[2]
  /\ memResp.total = fleet[1].total + fleet[2].total
  /\ memResp.free = fleet[1].free + fleet[2].free
  /\ memResp.total # memResp.free

\* a cuda_check_vram call on a valid Handle has returned, the count call
\* succeeded and the per-device call that fails is one of its backend, at
\* index k of the fleet
VramFailedAt(k) ==
  /\ lastOp = "vram" /\ pc = "ready" /\ ValidHandle(h)
  /\ ~CountFails
  /\ k < Len(fleet)
  /\ \E c \in VramCallsOf(h.lib_t) : << c, k >> \in failing

\* no backend call of the last operation names an index above k
NoCallBeyond(k) == \A i \in 1..Len(calls) : calls[i][2] <= k

\* C6 as stated: a per-device failure at index k ends the call with an
\* error, no backend call is made for an index above k, and the partial
\* sums of devices 0..k-1 are discarded: total and free are not populated
\* (they are what the caller passed in, or zero).
C6_PartialSumsDiscarded ==
  \A k \in 0..(MaxDevices - 1) :
    VramFailedAt(k) =>
      /\ memResp.err # NoErr
      /\ NoCallBeyond(k)
      /\ memResp.total \in {0, memPrior.total}
      /\ memResp.free \in {0, memPrior.free}

\* C6 as amended: a per-device failure at index k ends the call with an
\* error and no backend call is made for an index above k; count holds the
\* number of devices and total and free hold the partial sums of devices
\* 0..k-1 (modulo 2^64), which the caller must ignore.
C6_PartialSumsLeft ==
  \A k \in 0..(MaxDevices - 1) :
    VramFailedAt(k) =>
      /\ memResp.err # NoErr
      /\ memResp.err[2] = k
      /\ NoCallBeyond(k)
      /\ memResp.count = Len(fleet)
      /\ memResp.total = SumTotal(k) % MemMod
      /\ memResp.free = SumFree(k) % MemMod

C6_Witness ==
  /\ VramFailedAt(1)
  /\ memPrior = StaleMem
  /\ memResp.err # NoErr
  /\ memResp.total = fleet[1].total
  /\ memResp.total # 0

\* ------------------------------------------------------------ properties of cuda_compute_capability

\* reading a is at most reading b: lower major wins; equal major, lower minor
CapLeq(a, b) == a.major < b.major \/ (a.major = b.major /\ a.minor <= b.minor)

\* the minimum of the fleet's readings, (0, 0) for no device
CapMin ==
  IF fleet = << >> THEN << 0, 0 >>
  ELSE LET d == fleet[CHOOSE i \in 1..Len(fleet) :
                        \A j \in 1..Len(fleet) : CapLeq(fleet[i], fleet[j])]
       IN  << d.major, d.minor >>

\* a cuda_compute_capability call on a valid Handle has returned, and the
\* count call and every per-device call it made succeeded
CapAllSucceeded ==
  /\ lastOp = "cc" /\ pc = "ready" /\ ValidHandle(h)
  /\ ~CountFails
  /\ \A f \in failing : f[1] \notin CapCallsOf(h.lib_t) \/ f[2] >= Len(fleet)

\* C7 as stated: for every sequence of readings that are all read
\* successfully the result is their minimum with error = NULL, and (0, 0)
\* with error = NULL for no device.
C7_Minimum ==
  CapAllSucceeded =>
    /\ ccResp.err = NoErr
    /\ << ccResp.major, ccResp.minor >> = CapMin

\* C7 as amended: the result is the minimum for every sequence of readings
\* whose majors are all at least 1 (a running major of 0 means "no reading
\* yet", so a reading with major 0 is replaced by the next one).
C7_MinimumOfPositive ==
  (CapAllSucceeded /\ \A i \in 1..Len(fleet) : fleet[i].major >= 1) =>
    /\ ccResp.err = NoErr
    /\ << ccResp.major, ccResp.minor >> = CapMin

C7_Witness ==
  /\ CapAllSucceeded
  /\ h.lib_t = LIBNVIDIAML
  /\ Len(fleet) = 2
  /\ fleet[1].major = 1 /\ fleet[1].minor = 1
  /\ fleet[2].major = 1 /\ fleet[2].minor = 0
  /\ ccPrior = StaleCap
  /\ ccResp = [err |-> NoErr, major |-> 1, minor |-> 0]

\* ------------------------------------------------------------ properties of both queries

\* a query has run last; the error of its result
QueryRan == lastOp \in {"vram", "cc"}
QueryErr == IF lastOp = "vram" THEN memResp.err ELSE ccResp.err

\* C8: on every Handle that a failed cuda_init returned, and on any Handle
\* whose library reference is NULL or whose tag is LIBUNKNOWN, both
\* cuda_check_vram and cuda_compute_capability return a non-null error and
\* invoke no backend entry point.
C8_InvalidHandleRejected ==
  (QueryRan /\ (initResp.err # NoErr \/ ~ValidHandle(h))) =>
    /\ pc = "ready"
    /\ QueryErr # NoErr
    /\ calls = << >>

\* a query on the Handle of a cuda_init that activated the management
\* backend and then failed in the default case
C8_Witness ==
  /\ lastOp = "vram"
  /\ initResp.err # NoErr
  /\ h = initResp.ch
  /\ h.lib_t = LIBNVIDIAML
  /\ h.handle = NULLPTR
  /\ Len(fleet) = 2
  /\ memResp.err # NoErr

\* two results of cuda_check_vram agree on count, total, free and on the
\* presence of an error
SameMem(a, b) ==
  /\ a.count = b.count /\ a.total = b.total /\ a.free = b.free
  /\ (a.err = NoErr <=> b.err = NoErr)

\* two results of cuda_compute_capability agree likewise
SameCap(a, b) ==
  /\ a.major = b.major /\ a.minor = b.minor
  /\ (a.err = NoErr <=> b.err = NoErr)

PastCount(resp) ==
  resp.err = NoErr \/
  resp.err[1] \in {"unable to get device handle", "device memory info lookup failure"}

C10_CountFailure ==
  (QueryRan /\ ValidHandle(h) /\ CountCallOf(h.lib_t) \in h.fns /\ CountFails) =>
    /\ pc = "ready"
    /\ QueryErr # NoErr
    /\ calls = << << CountCallOf(h.lib_t), -1 >> >>

C10_Witness ==
  /\ lastOp = "cc" /\ pc = "ready"
  /\ ValidHandle(h) /\ h.lib_t = LIBCUDART /\ h = initResp.ch
  /\ CountFails
  /\ Len(fleet) = 2
  /\ ccResp.err = << "unable to get device count" >>

\* ------------------------------------------------------------ frame properties of the queries

\* every entry point of the Handle is resolved
AllSlots(hh) == hh.fns = SymbolSet

\* C11: a query, successful or failed, leaves the caller's Handle (library
\* reference, tag, entry-point table) and the loaded library as they were
\* after cuda_init; a failed query does not make a valid Handle invalid,
\* and a query made once the backend is healthy again (every entry point
\* resolved, no call failing) succeeds.
C11_QueriesKeepHandle ==
  [][ pc = "ready" =>
        /\ h' = h
        /\ initResp' = initResp
        /\ libOpen' = libOpen
        /\ closes' = closes
        /\ (lastOp' \in {"vram", "cc"} /\ ValidHandle(h') /\ AllSlots(h') /\ failing' = {}) =>
             (pc' = "ready" /\ QueryErr' = NoErr) ]_vars

\* cuda_check_vram succeeds on the Handle cuda_init returned, after a
\* cuda_compute_capability call failed at a device and the backend recovered
C11_Witness ==
  /\ lastOp = "vram" /\ pc = "ready"
  /\ h = initResp.ch /\ ValidHandle(h) /\ initResp.err = NoErr
  /\ failing = {}
  /\ ccResp.err = << "unable to get device handle", 1 >>
  /\ memPrior = StaleMem
  /\ memResp.err = NoErr /\ memResp.count = 2

\* ------------------------------------------------------------ further properties of cuda_init

\* the driver-version call of the activated backend was made
DriverVersionCalled(name) == \E i \in 1..Len(calls) : calls[i][1] = name

\* C12: once a backend has been activated, the driver-version lookup,
\* whether it succeeds or fails, leaves the Handle's library reference and
\* tag as activation set them and leaves error = NULL.  (On the management
\* backend the code runs on from the lookup into the default case.)
C12_DriverVersionNeverFatal ==
  /\ (lastOp = "init" /\ DriverVersionCalled("cudaDriverGetVersion")) =>
       /\ pc = "ready"
       /\ initResp.err = NoErr
       /\ initResp.ch.handle = LibRef
       /\ initResp.ch.lib_t = LIBCUDART
  /\ (lastOp = "init" /\ DriverVersionCalled("nvmlSystemGetDriverVersion")) =>
       /\ pc = "ready"
       /\ initResp.err = NoErr
       /\ initResp.ch.handle = LibRef
       /\ initResp.ch.lib_t = LIBNVIDIAML

\* C13: if the loader fails to open the path, cuda_init returns at once with
\* a non-null error, resolves no symbol, invokes no backend entry point and
\* leaves the Handle with tag LIBUNKNOWN and a null library reference; no
\* library is open and the loader's close is never called.
C13_OpenFailure ==
  (lastOp = "init" /\ ~env.openOk) =>
    /\ pc = "ready"
    /\ initResp.err = << "Unable to load library" >>
    /\ initResp.ch.fns = {}
    /\ calls = << >>
    /\ initResp.ch.lib_t = LIBUNKNOWN
    /\ initResp.ch.handle = NULLPTR
    /\ ~libOpen
    /\ closes = << >>

\* the open fails for a library whose every symbol would resolve and whose
\* runtime backend would initialize
C13_Witness ==
  /\ InitReturned
  /\ ~env.openOk /\ env.missing = {} /\ env.setDevOk
  /\ initResp.err # NoErr
  /\ ~ValidHandle(initResp.ch)
  /\ h = initResp.ch

\* C15: on every cuda_init run in which the library was opened but the call
\* ends with a non-null error, the loader's close has been called on the
\* reference that was opened, so no library stays open behind an invalid
\* Handle.  (In the default case the code drops the reference before the
\* close and hands the loader NULL.)
C15_NoLeakOnFailure ==
  (InitReturned /\ env.openOk /\ initResp.err # NoErr) =>
    /\ \E i \in 1..Len(closes) : closes[i] = LibRef
    /\ ~libOpen

\* ------------------------------------------------------------ verbosity

\* the same Handle with the other verbose flag
FlipVerbose(hh) == [hh EXCEPT !.verbose = 1 - @]

\* two cuda_init runs agree on what the caller can observe
InitAgree(a, b) ==
  /\ a.crashed = b.crashed
  /\ ~a.crashed =>
       /\ a.resp.ch.lib_t = b.resp.ch.lib_t
       /\ ValidHandle(a.resp.ch) = ValidHandle(b.resp.ch)
       /\ (a.resp.err = NoErr) = (b.resp.err = NoErr)

\* C14: two runs that differ only in the verbose flag and see the same
\* answers from the loader and the non-diagnostic backend calls, whatever
\* the diagnostic-only calls return, give the same tag, the same validity,
\* the same count/total/free, the same (major, minor) and the same error
\* presence: each call that is made is compared with the same call on the
\* other flag.
C14_VerboseNonInterference ==
  [][ /\ lastOp' = "init" =>
           \A v \in {0, 1}, dv \in BOOLEAN :
             LET run == cuda_init_run(v, [env' EXCEPT !.drvOk = dv], libOpen, closes, curDevice)
             IN  /\ run.crashed = (pc' = "crashed")
                 /\ ~run.crashed => InitAgree(run, [resp |-> initResp', crashed |-> FALSE])
      /\ (lastOp' = "vram" /\ pc = "ready") =>
           \E prior \in {ZeroMem, StaleMem, memResp} :
             /\ prior = memPrior'
             /\ LET other == cuda_check_vram_run(FlipVerbose(h), prior, curDevice)
                IN  /\ other.crashed = (pc' = "crashed")
                    /\ ~other.crashed =>
                         /\ other.resp.count = memResp'.count
                         /\ other.resp.total = memResp'.total
                         /\ other.resp.free = memResp'.free
                         /\ (other.resp.err = NoErr) = (memResp'.err = NoErr)
      /\ (lastOp' = "cc" /\ pc = "ready") =>
           \E prior \in {ZeroCap, StaleCap, ccResp} :
             /\ prior = ccPrior'
             /\ LET other == cuda_compute_capability_run(FlipVerbose(h), prior, curDevice)
                IN  /\ other.crashed = (pc' = "crashed")
                    /\ ~other.crashed =>
                         /\ other.resp.major = ccResp'.major
                         /\ other.resp.minor = ccResp'.minor
                         /\ (other.resp.err = NoErr) = (ccResp'.err = NoErr) ]_vars

\* a verbose cuda_check_vram on the management backend succeeds over two
\* devices although a metadata call fails at the second
C14_Witness ==
  /\ lastOp = "vram" /\ pc = "ready"
  /\ ValidHandle(h) /\ h.lib_t = LIBNVIDIAML /\ h.verbose = 1
  /\ failing = { << "nvmlDeviceGetSerial", 1 >> }
  /\ << "nvmlDeviceGetBrand", 1 >> \in { calls[i] : i \in 1..Len(calls) }
  /\ memResp.err = NoErr /\ memResp.count = 2 /\ memResp.total = 2

\* ------------------------------------------------------------ the reduction rule

\* the stated rule, one reading (M, m) applied to the running pair
RuleStep(running, M, m) ==
  CASE running[1] = 0 \/ running[1] > M -> << M, m >>
    [] running[1] # 0 /\ running[1] = M /\ running[2] > m -> << running[1], m >>
    [] OTHER -> running

\* the stated rule over the first n readings of the fleet, from (0, 0)
RECURSIVE RuleFold(_)
RuleFold(n) ==
  IF n = 0 THEN << 0, 0 >>
  ELSE RuleStep(RuleFold(n - 1), fleet[n].major, fleet[n].minor)

\* C16: on either backend, when every reading is read successfully the
\* result of cuda_compute_capability is the running pair of the stated rule
\* after the last device: started at (0, 0) whatever the caller passed in,
\* replaced by (M, m) when the running major is 0 or greater than M, lowered
\* in its minor only when the majors are equal and the running minor is
\* greater than m, unchanged otherwise, over the devices in index order.
C16_ReductionRule ==
  CapAllSucceeded =>
    /\ ccResp.err = NoErr
    /\ << ccResp.major, ccResp.minor >> = RuleFold(Len(fleet))

\* a lower major arrives second on the runtime backend and brings a higher
\* minor with it, over a stale result
C16_Witness ==
  /\ CapAllSucceeded
  /\ h.lib_t = LIBCUDART
  /\ Len(fleet) = 2
  /\ fleet[1].major = 2 /\ fleet[1].minor = 0
  /\ fleet[2].major = 1 /\ fleet[2].minor = 1
  /\ ccPrior = StaleCap
  /\ ccResp = [err |-> NoErr, major |-> 1, minor |-> 1]

\* ------------------------------------------------------------ order of the backend calls

\* the locating call and the memory-info call of each backend
LocateCallOf(t) == IF t = LIBCUDART THEN "cudaSetDevice" ELSE "nvmlDeviceGetHandleByIndex"
MemInfoCallOf(t) == IF t = LIBCUDART THEN "cudaMemGetInfo" ELSE "nvmlDeviceGetMemoryInfo"

\* the count call, then for each index 0 .. n-1 in turn the locating call
\* and the memory-info call
RECURSIVE InOrder(_, _)
InOrder(t, n) ==
  IF n = 0 THEN << << CountCallOf(t), -1 >> >>
  ELSE InOrder(t, n - 1) \o << << LocateCallOf(t), n - 1 >>, << MemInfoCallOf(t), n - 1 >> >>

\* the calls of the last operation without the verbose metadata calls
CoreCalls == SelectSeq(calls, LAMBDA c : c[1] \notin MetadataCalls)

IsPrefix(p, q) == Len(p) <= Len(q) /\ \A i \in 1..Len(p) : p[i] = q[i]

\* C17: in one cuda_check_vram call the device-count call comes first, then
\* the indices 0, 1, ..., count-1 are visited in ascending order, none
\* skipped or repeated, the locating call of i before the memory-info call
\* of i and after that of i-1; a call that fails part-way has made a prefix
\* of that sequence, a call that succeeds all of it.
C17_AscendingOrder ==
  (lastOp = "vram" /\ ValidHandle(h)) =>
    /\ pc = "ready"
    /\ IsPrefix(CoreCalls, InOrder(h.lib_t, Len(fleet)))
    /\ CoreCalls # << >>
    /\ memResp.err = NoErr => CoreCalls = InOrder(h.lib_t, memResp.count)

\* a verbose call on the management backend has visited two devices
C17_Witness ==
  /\ lastOp = "vram" /\ pc = "ready"
  /\ ValidHandle(h) /\ h.lib_t = LIBNVIDIAML /\ h.verbose = 1
  /\ memResp.err = NoErr /\ memResp.count = 2
  /\ Len(calls) = 15
  /\ CoreCalls = << << "nvmlDeviceGetCount_v2", -1 >>,
                    << "nvmlDeviceGetHandleByIndex", 0 >>, << "nvmlDeviceGetMemoryInfo", 0 >>,
                    << "nvmlDeviceGetHandleByIndex", 1 >>, << "nvmlDeviceGetMemoryInfo", 1 >> >>

\* ------------------------------------------------------------ the precondition

\* a query has been called with a Handle whose library reference is NULL
NullReference == QueryRan /\ pc = "ready" /\ h.handle = NULLPTR

\* C18 as stated: a query called with a null library reference sets only
\* the error of the result; count, total, free, major and minor keep the
\* values the caller passed in.
C18_ResultUntouched ==
  /\ (NullReference /\ lastOp = "vram") =>
       /\ memResp.err # NoErr
       /\ memResp.count = memPrior.count
       /\ memResp.total = memPrior.total
       /\ memResp.free = memPrior.free
  /\ (NullReference /\ lastOp = "cc") =>
       /\ ccResp.err # NoErr
       /\ ccResp.major = ccPrior.major
       /\ ccResp.minor = ccPrior.minor

\* C18 as amended: cuda_check_vram sets only the error and keeps count,
\* total and free; cuda_compute_capability sets the error and returns
\* major = minor = 0 whatever the caller passed in.  Neither makes a
\* backend call or moves the current device.
C18_OnlyVramUntouched ==
  /\ (NullReference /\ lastOp = "vram") =>
       /\ memResp = [memPrior EXCEPT !.err = << "cuda and nvml handle isn't initialized" >>]
       /\ calls = << >>
  /\ (NullReference /\ lastOp = "cc") =>
       /\ ccResp = [err |-> << "cuda handle not initialized" >>, major |-> 0, minor |-> 0]
       /\ calls = << >>

\* both queries have been called with a null reference on stale results
C18_Witness ==
  /\ NullReference /\ lastOp = "cc"
  /\ ccPrior = StaleCap /\ ccResp.major = 0 /\ ccResp.minor = 0 /\ ccResp.err # NoErr
  /\ memPrior = StaleMem /\ memResp.total = 5 /\ memResp.free = 3 /\ memResp.count = 1
  /\ memResp.err = << "cuda and nvml handle isn't initialized" >>

\* ------------------------------------------------------------ the current device

\* the index at which the query that just ran was aborted, from its error
AbortedAt(err) == err[2]
SelectFailed(err) == err[1] = "unable to get device handle"

\* C20: on the runtime backend a successful cuda_init leaves the current
\* device at 0; a query that succeeds over n >= 1 devices leaves it at n-1;
\* a query aborted by a per-device failure at index k leaves it at k if the
\* select of k succeeded and at the device selected before otherwise; a
\* query that fails the precondition or the count call, or sees no device,
\* leaves it unchanged, as does every query on the management backend.
C20_CurrentDevice ==
  [][ /\ (lastOp' = "init" /\ pc' = "ready" /\ initResp'.err = NoErr) => curDevice' = 0
      /\ (lastOp' \in {"vram", "cc"} /\ pc = "ready" /\ pc' = "ready") =>
           IF ~ValidHandle(h) \/ h.lib_t # LIBCUDART \/ CountFails \/ Len(fleet) = 0
           THEN curDevice' = curDevice
           ELSE IF QueryErr' = NoErr
           THEN curDevice' = Len(fleet) - 1
           ELSE IF ~SelectFailed(QueryErr')
           THEN curDevice' = AbortedAt(QueryErr')
           ELSE IF AbortedAt(QueryErr') = 0
           THEN curDevice' = curDevice
           ELSE curDevice' = AbortedAt(QueryErr') - 1 ]_vars

\* cuda_init has moved the current device from 1 to 0, and a
\* cuda_compute_capability call aborted at the second device, whose select
\* succeeded, has left it at 1
C20_Witness ==
  /\ lastOp = "cc" /\ pc = "ready"
  /\ h = initResp.ch /\ ValidHandle(h) /\ h.lib_t = LIBCUDART
  /\ failing = { << "cudaDeviceGetAttribute:Major", 1 >> }
  /\ ccResp.err = << "device compute capability lookup failure", 1 >>
  /\ memResp.err = NoErr /\ memResp.count = 2
  /\ curDevice = 1

\* ------------------------------------------------------------ concurrent queries

\* thread t's call has returned error = NULL
RaceSucceeded(t) == race[t].at = "done" /\ race[t].resp.err = NoErr

\* C19 as stated, for calls run one after the other: every total and free
\* returned with error = NULL equals the sum over the fleet.
C19_SerializedExactSum ==
  \A t \in Threads :
    (RaceSucceeded(t) /\ ~race[t].overlapped) =>
      /\ race[t].resp.total = SumTotal(Len(fleet))
      /\ race[t].resp.free = SumFree(Len(fleet))

\* C19 as amended: a call that ran while the other thread was not inside
\* its own call never reads a device selected by the other, returns what a
\* lone cuda_check_vram returns, and when it succeeds its total and free
\* are the fleet's sums modulo the accumulators' width; any call without a
\* misread has the same sums.  (That a misread is reachable and changes the
\* sums is the witness.)
C19_SerializedSumModWidth ==
  \A t \in Threads :
    /\ (race[t].at = "done" /\ ~race[t].overlapped) =>
         /\ ~race[t].misread
         /\ race[t].resp = cuda_check_vram_run(h, race[t].prior, 0).resp
    /\ (RaceSucceeded(t) /\ ~race[t].misread) =>
         /\ race[t].resp.count = Len(fleet)
         /\ race[t].resp.total = SumTotal(Len(fleet)) % MemMod
         /\ race[t].resp.free = SumFree(Len(fleet)) % MemMod

\* thread a's first cudaMemGetInfo read the device thread b had selected:
\* both calls return error = NULL, b the fleet's sums, a other sums
C19_Witness ==
  /\ RaceSucceeded("a") /\ RaceSucceeded("b")
  /\ race["a"].overlapped /\ race["a"].misread /\ ~race["b"].misread
  /\ Len(fleet) = 2 /\ SumTotal(2) < MemMod
  /\ race["b"].resp.total = SumTotal(2) /\ race["b"].resp.free = SumFree(2)
  /\ race["a"].resp.total # SumTotal(2)
  /\ race["a"].resp.free # SumFree(2)

====
